---- MODULE Spec2Model ----
(***************************************************************************)
(* Approval workflows of the QMS back office: Document review/approval,    *)
(* CAPA remediation and Change Control review/approval.                    *)
(*                                                                         *)
(* The state is the content of the workflow tables (documents,             *)
(* document_reviews, capas, capa_history, change_controls,                 *)
(* change_control_history), the response of the last request and the       *)
(* SQLAlchemy sessions of the requests in flight.                          *)
(* In Spec every action is one HTTP endpoint: its auth dependency followed *)
(* by the service function it calls, committed as one step.                *)
(* In SpecConcurrent two workers run service functions whose SELECT and    *)
(* COMMIT are separate steps.                                              *)
(***************************************************************************)
EXTENDS Integers, Sequences, FiniteSets, TLC

VARIABLES documents, document_reviews, capas, capa_history,
          change_controls, change_control_history, training_assignments,
          transitions, ret, sessions

vars == <<documents, document_reviews, capas, capa_history,
          change_controls, change_control_history, training_assignments,
          transitions, ret, sessions>>

(***************************************************************************)
(* Bounds of the model.                                                    *)
(***************************************************************************)
\* longest histories (rows of document_reviews, capa_history,
\* change_control_history) the model follows
MaxHistory == 4

MaxCapaHistory == 6

MaxChangeHistory == 4

\* SQL NULL / Python None
NULL == "NULL"

\* a DateTime column or argument that is None (datetimes are counted in days)
NoDate == 0
\* a DateTime column that has been stamped with utcnow()
STAMPED == "STAMPED"

(***************************************************************************)
(* Actor directory: the employees and roles tables.                        *)
(***************************************************************************)
RoleEnum == <<"Admin", "Auditor", "Employee", "Approver", "Reviewer", "Qa">>

RoleIds == DOMAIN RoleEnum

\* the employees table: id |-> role_id
EmployeeRoleId == [admin1 |-> 1, auditor1 |-> 2, employee1 |-> 3, employee2 |-> 3,
                   approver1 |-> 4, approver2 |-> 4, reviewer1 |-> 5, qa1 |-> 6]

Employees == DOMAIN EmployeeRoleId

\* session.query(Role).filter(Role.name == name).first(), as the role's id
RoleIdByName(name) ==
    IF \E i \in RoleIds : RoleEnum[i] = name
    THEN CHOOSE i \in RoleIds : RoleEnum[i] = name
    ELSE 0

RoleNameOf(e) == RoleEnum[EmployeeRoleId[e]]

admin_auth(e) == RoleIdByName("Admin") # 0 /\ EmployeeRoleId[e] = RoleIdByName("Admin")

reviewer_auth(e) == RoleIdByName("Reviewer") # 0 /\ EmployeeRoleId[e] = RoleIdByName("Reviewer")

\* admits administrators as well
approver_auth_admin_too(e) ==
    EmployeeRoleId[e] \in {RoleIdByName("Approver"), RoleIdByName("Admin")}

approver_auth(e) == RoleIdByName("Approver") # 0 /\ EmployeeRoleId[e] = RoleIdByName("Approver")

\* every role but Admin
employee_auth(e) == ~(RoleIdByName("Admin") # 0 /\ EmployeeRoleId[e] = RoleIdByName("Admin"))

\* get_current_user: the request carries a valid bearer token of an employee
get_current_user(e) == e \in Employees

document_access_auth(e) ==
    /\ RoleIdByName("Admin") # 0 /\ RoleIdByName("Approver") # 0 /\ RoleIdByName("Reviewer") # 0
    /\ \/ EmployeeRoleId[e] = RoleIdByName("Admin")
       \/ EmployeeRoleId[e] = RoleIdByName("Approver")
       \/ EmployeeRoleId[e] = RoleIdByName("Reviewer")

(***************************************************************************)
(* Version strings.  A version is the string "major.minor", kept as the    *)
(* sequence of its characters; split('.') / int() / f"{major + 1}.0" are   *)
(* computed on the characters.                                             *)
(***************************************************************************)
Digits == <<"0", "1", "2", "3", "4", "5", "6", "7", "8", "9">>

DigitVal(c) == (CHOOSE i \in DOMAIN Digits : Digits[i] = c) - 1

RECURSIVE ParseInt(_)
ParseInt(s) ==
    IF Len(s) = 0 THEN 0
    ELSE ParseInt(SubSeq(s, 1, Len(s) - 1)) * 10 + DigitVal(s[Len(s)])

RECURSIVE FormatInt(_)
FormatInt(n) ==
    IF n < 10 THEN <<Digits[n + 1]>>
    ELSE FormatInt(n \div 10) \o <<Digits[(n % 10) + 1]>>

\* s.split('.')
RECURSIVE SplitDot(_)
SplitDot(s) ==
    IF \A i \in DOMAIN s : s[i] # "."
    THEN <<s>>
    ELSE LET k == CHOOSE i \in DOMAIN s : s[i] = "." /\ \A j \in 1..(i - 1) : s[j] # "."
         IN <<SubSeq(s, 1, k - 1)>> \o SplitDot(SubSeq(s, k + 1, Len(s)))

V_1_0 == <<"1", ".", "0">>
V_1_1 == <<"1", ".", "1">>
V_1_2 == <<"1", ".", "2">>

\* major, minor = map(int, version.split('.'))
MajorOf(v) == ParseInt(SplitDot(v)[1])

MinorOf(v) == ParseInt(SplitDot(v)[2])

\* f"{major + 1}.{minor}"
RejectedVersionKeepingMinor(v) == FormatInt(MajorOf(v) + 1) \o <<".">> \o FormatInt(MinorOf(v))

\* f"{major + 1}.0"
RejectedVersion(v) == FormatInt(MajorOf(v) + 1) \o <<".", "0">>

\* lexical (major, minor) order of two versions
VersionLess(a, b) ==
    \/ MajorOf(a) < MajorOf(b)
    \/ MajorOf(a) = MajorOf(b) /\ MinorOf(a) < MinorOf(b)

(***************************************************************************)
(* Document workflow: services/documentservice.py                          *)
(***************************************************************************)
DocumentIds == {1}

DocumentStatusEnum == {"draft", "under_review", "under_approval", "approved", "rejected", "archived"}

\* finds soft-deleted documents too
DocumentFoundDeletedToo(id) == id \in DOMAIN documents

\* session.query(Document).filter(Document.id == id, Document.deleted_at.is_(None)).first()
DocumentFound(id) == id \in DOMAIN documents /\ documents[id].deleted_at = NULL

DocumentReview(id, reviewer_id, action) ==
    [document_id |-> id, reviewer_id |-> reviewer_id, action |-> action]

\* what a service call hands back: the tables it committed, the returned
\* object (ok = not None), the message, and whether it wrote the status column
DocResult(docs, reviews, ok, message, wrote) ==
    [documents |-> docs, document_reviews |-> reviews, ok |-> ok,
     message |-> message, wrote_status |-> wrote]

DocFail(message) == DocResult(documents, document_reviews, FALSE, message, FALSE)

add_document_to_db(id, uploaded_by) ==
    DocResult(id :> [status |-> "draft", version |-> V_1_0, uploaded_by |-> uploaded_by,
                     assigned_approver_id |-> NULL, approved_at |-> NULL,
                     deleted_at |-> NULL] @@ documents,
              document_reviews, TRUE, "Document uploaded successfully", FALSE)

\* deletes the review rows of the document with it
delete_document_from_db_with_reviews(id) ==
    IF id \notin DOMAIN documents
    THEN DocFail("Document not found")
    ELSE DocResult([documents EXCEPT ![id].deleted_at = STAMPED],
                   SelectSeq(document_reviews, LAMBDA r : r.document_id # id),
                   TRUE, "Document deleted successfully", FALSE)

delete_document_from_db(id) ==
    IF id \notin DOMAIN documents
    THEN DocFail("Document not found")
    ELSE DocResult([documents EXCEPT ![id].deleted_at = STAMPED], document_reviews,
                   TRUE, "Document deleted successfully", FALSE)

\* leaves the version column alone
send_document_to_reviewer_unversioned(id, reviewer_id) ==
    IF ~DocumentFound(id) THEN DocFail("Document not found")
    ELSE IF documents[id].status # "draft"
    THEN DocFail("Document must be in draft status")
    ELSE DocResult([documents EXCEPT ![id].status = "under_review"],
                   Append(document_reviews, DocumentReview(id, reviewer_id, "sent_to_reviewer")),
                   TRUE, "Document sent to reviewer successfully (Version: 1.1)", TRUE)

send_document_to_reviewer(id, reviewer_id) ==
    IF ~DocumentFound(id) THEN DocFail("Document not found")
    ELSE IF documents[id].status # "draft"
    THEN DocFail("Document must be in draft status")
    ELSE DocResult([documents EXCEPT ![id].status = "under_review", ![id].version = V_1_1],
                   Append(document_reviews, DocumentReview(id, reviewer_id, "sent_to_reviewer")),
                   TRUE, "Document sent to reviewer successfully (Version: 1.1)", TRUE)

review_document_action(id, reviewer_id, action) ==
    IF ~DocumentFound(id) THEN DocFail("Document not found")
    ELSE IF documents[id].status # "under_review"
    THEN DocFail("Document must be under review")
    ELSE LET reviews == Append(document_reviews, DocumentReview(id, reviewer_id, action))
         IN IF action = "reject"
            THEN DocResult([documents EXCEPT ![id].status = "rejected",
                                             ![id].version = RejectedVersion(documents[id].version)],
                           reviews, TRUE, "Document rejected and version updated", TRUE)
            ELSE IF action = "review"
            THEN DocResult([documents EXCEPT ![id].status = "under_review", ![id].version = V_1_1],
                           reviews, TRUE,
                           "Document reviewed successfully (Version: 1.1) - ready for approval assignment",
                           TRUE)
            \* neither branch: the review row and updated_at are committed, then
            \* `return document, message` raises UnboundLocalError
            ELSE DocResult(documents, reviews, FALSE, "UnboundLocalError", FALSE)

approve_document(id, approved, reviewer_id) ==
    IF ~DocumentFound(id) THEN DocFail("Document not found")
    ELSE IF documents[id].status # "under_approval"
    THEN DocFail("Document must be under approval")
    ELSE LET reviews == Append(document_reviews,
                               DocumentReview(id, reviewer_id, IF approved THEN "approve" ELSE "reject"))
         IN IF approved
            THEN DocResult([documents EXCEPT ![id].status = "approved", ![id].version = V_1_2,
                                             ![id].approved_at = STAMPED],
                           reviews, TRUE, "Document approved successfully (Version: 1.2)", TRUE)
            ELSE DocResult([documents EXCEPT ![id].status = "rejected",
                                             ![id].version = RejectedVersion(documents[id].version)],
                           reviews, TRUE, "Document rejected and version updated", TRUE)

add_document_comment(id, user_id) ==
    IF ~DocumentFound(id) THEN DocFail("Document not found")
    ELSE DocResult(documents, Append(document_reviews, DocumentReview(id, user_id, "comment")),
                   TRUE, "Comment added successfully", FALSE)

\* leaves the version of the rejected document
resubmit_rejected_document_keeping_version(id, uploaded_by) ==
    IF ~DocumentFound(id) THEN DocFail("Document not found")
    ELSE IF documents[id].status # "rejected"
    THEN DocFail("Document must be in rejected status")
    ELSE DocResult([documents EXCEPT ![id].status = "draft"],
                   Append(document_reviews, DocumentReview(id, uploaded_by, "resubmitted")),
                   TRUE, "Document resubmitted successfully (Version: 1.0)", TRUE)

resubmit_rejected_document(id, uploaded_by) ==
    IF ~DocumentFound(id) THEN DocFail("Document not found")
    ELSE IF documents[id].status # "rejected"
    THEN DocFail("Document must be in rejected status")
    ELSE DocResult([documents EXCEPT ![id].status = "draft", ![id].version = V_1_0],
                   Append(document_reviews, DocumentReview(id, uploaded_by, "resubmitted")),
                   TRUE, "Document resubmitted successfully (Version: 1.0)", TRUE)

\* leaves assigned_approver_id alone
send_document_to_approver_unassigned(id, approver_id) ==
    IF ~DocumentFound(id) THEN DocFail("Document not found")
    ELSE IF documents[id].status # "under_review"
    THEN DocFail("Document must be under review")
    ELSE DocResult([documents EXCEPT ![id].status = "under_approval", ![id].version = V_1_1],
                   Append(document_reviews, DocumentReview(id, approver_id, "sent_to_approver")),
                   TRUE, "Document sent to approver successfully (Version: 1.1)", TRUE)

send_document_to_approver(id, approver_id) ==
    IF ~DocumentFound(id) THEN DocFail("Document not found")
    ELSE IF documents[id].status # "under_review"
    THEN DocFail("Document must be under review")
    ELSE DocResult([documents EXCEPT ![id].status = "under_approval",
                                     ![id].assigned_approver_id = approver_id,
                                     ![id].version = V_1_1],
                   Append(document_reviews, DocumentReview(id, approver_id, "sent_to_approver")),
                   TRUE, "Document sent to approver successfully (Version: 1.1)", TRUE)

\* repairs every document under approval, assigned or not
fix_document_status_unconditional(id) ==
    IF ~DocumentFound(id) THEN DocFail("Document not found")
    ELSE IF documents[id].status = "under_approval"
    THEN DocResult([documents EXCEPT ![id].status = "under_review"], document_reviews,
                   TRUE, "Document status fixed - moved back to under_review", TRUE)
    ELSE DocResult(documents, document_reviews, TRUE, "Document status is correct", FALSE)

fix_document_status(id) ==
    IF ~DocumentFound(id) THEN DocFail("Document not found")
    ELSE IF documents[id].status = "under_approval" /\ documents[id].assigned_approver_id = NULL
    THEN DocResult([documents EXCEPT ![id].status = "under_review"], document_reviews,
                   TRUE, "Document status fixed - moved back to under_review", TRUE)
    ELSE DocResult(documents, document_reviews, TRUE, "Document status is correct", FALSE)

(***************************************************************************)
(* CAPA workflow: services/capaservices.py                                 *)
(***************************************************************************)
CapaIds == {1}

CAPAStatusEnum == {"OPEN", "IN PROGRESS", "PENDING VERIFICATION", "CLOSED", "SENT BACK"}

\* session.query(CAPA).filter(CAPA.id == id, CAPA.deleted_at.is_(None)).first()
CapaFound(id) == id \in DOMAIN capas

\* finds the employee whatever the role
EmployeeRoleUserAnyRole(e) == e \in Employees

\* session.query(Employee).join(Role).filter(Employee.id == e,
\*     Employee.deleted_at.is_(None), Role.name == "Employee").first()
EmployeeRoleUser(e) == e \in Employees /\ RoleNameOf(e) = "Employee"

_create_capa_history(history, id, action, performed_by_id, previous_status, new_status) ==
    Append(history, [capa_id |-> id, action |-> action, performed_by_id |-> performed_by_id,
                     previous_status |-> previous_status, new_status |-> new_status])

CapaResult(rows, history, ok, message, wrote) ==
    [capas |-> rows, capa_history |-> history, ok |-> ok,
     message |-> message, wrote_status |-> wrote]

CapaFail(message) == CapaResult(capas, capa_history, FALSE, message, FALSE)

\* datetime.datetime.fromisoformat accepts the string
IsIsoFormat(s) == s \in {"2025-01-15"}

create_capa(id, assigned_to_id, due_date, created_by_id) ==
    IF assigned_to_id # NULL /\ ~EmployeeRoleUser(assigned_to_id)
    THEN CapaFail("assigned_to must be an 'Employee' user")
    ELSE LET created == _create_capa_history(capa_history, id, "Created", created_by_id, NULL, "OPEN")
         IN CapaResult(id :> [status |-> "OPEN", assigned_to |-> assigned_to_id,
                              assigned_by |-> created_by_id, due_date |-> due_date,
                              started_date |-> NULL,
                              completed_date |-> NULL, closed_date |-> NULL] @@ capas,
                       IF assigned_to_id # NULL
                       THEN _create_capa_history(created, id, "Assigned", created_by_id, "OPEN", "OPEN")
                       ELSE created,
                       TRUE, "CAPA created successfully", FALSE)

\* hands the CAPA over as a new one: the status goes back to OPEN
assign_capa_reopening(id, assigned_to_id, assigned_by_id) ==
    IF ~CapaFound(id) THEN CapaFail("CAPA not found")
    ELSE IF ~EmployeeRoleUser(assigned_to_id)
    THEN CapaFail("Assignee must have 'Employee' role")
    ELSE LET previous_assignee == capas[id].assigned_to
             action == IF previous_assignee # NULL THEN "Reassigned" ELSE "Assigned"
         IN CapaResult([capas EXCEPT ![id].assigned_to = assigned_to_id, ![id].status = "OPEN"],
                       _create_capa_history(capa_history, id, action, assigned_by_id,
                                            capas[id].status, "OPEN"),
                       TRUE, "CAPA assigned successfully", FALSE)

assign_capa(id, assigned_to_id, assigned_by_id) ==
    IF ~CapaFound(id) THEN CapaFail("CAPA not found")
    ELSE IF ~EmployeeRoleUser(assigned_to_id)
    THEN CapaFail("Assignee must have 'Employee' role")
    ELSE LET previous_assignee == capas[id].assigned_to
             action == IF previous_assignee # NULL THEN "Reassigned" ELSE "Assigned"
         IN CapaResult([capas EXCEPT ![id].assigned_to = assigned_to_id],
                       _create_capa_history(capa_history, id, action, assigned_by_id,
                                            capas[id].status, capas[id].status),
                       TRUE, "CAPA assigned successfully", FALSE)

\* starts work on a CAPA nobody is assigned to as well
start_capa_work_unassigned_too(id, employee_id) ==
    IF ~(CapaFound(id) /\ capas[id].assigned_to \in {employee_id, NULL})
    THEN CapaFail("CAPA not found or not assigned to you")
    ELSE IF capas[id].status # "OPEN" /\ capas[id].status # "SENT BACK"
    THEN CapaFail("CAPA must be in OPEN or SENT BACK status")
    ELSE CapaResult([capas EXCEPT ![id].status = "IN PROGRESS", ![id].started_date = STAMPED],
                    _create_capa_history(capa_history, id, "Started Work", employee_id,
                                         capas[id].status, "IN PROGRESS"),
                    TRUE, "CAPA work started successfully", TRUE)

\* starts work for the assignee from any status
start_capa_work_any_status(id, employee_id) ==
    IF ~(CapaFound(id) /\ capas[id].assigned_to = employee_id)
    THEN CapaFail("CAPA not found or not assigned to you")
    ELSE CapaResult([capas EXCEPT ![id].status = "IN PROGRESS", ![id].started_date = STAMPED],
                    _create_capa_history(capa_history, id, "Started Work", employee_id,
                                         capas[id].status, "IN PROGRESS"),
                    TRUE, "CAPA work started successfully", TRUE)

start_capa_work(id, employee_id) ==
    IF ~(CapaFound(id) /\ capas[id].assigned_to = employee_id)
    THEN CapaFail("CAPA not found or not assigned to you")
    ELSE IF capas[id].status # "OPEN" /\ capas[id].status # "SENT BACK"
    THEN CapaFail("CAPA must be in OPEN or SENT BACK status")
    ELSE CapaResult([capas EXCEPT ![id].status = "IN PROGRESS", ![id].started_date = STAMPED],
                    _create_capa_history(capa_history, id, "Started Work", employee_id,
                                         capas[id].status, "IN PROGRESS"),
                    TRUE, "CAPA work started successfully", TRUE)

complete_capa(id, employee_id, completion_date) ==
    IF ~(CapaFound(id) /\ capas[id].assigned_to = employee_id)
    THEN CapaFail("CAPA not found or not assigned to you")
    ELSE IF capas[id].status # "IN PROGRESS"
    THEN CapaFail("CAPA must be IN PROGRESS")
    ELSE IF completion_date # NULL /\ ~IsIsoFormat(completion_date)
    THEN CapaFail("Invalid completion_date format. Use ISO format (YYYY-MM-DD)")
    ELSE CapaResult([capas EXCEPT ![id].status = "PENDING VERIFICATION",
                                  ![id].completed_date = IF completion_date # NULL
                                                         THEN completion_date ELSE STAMPED],
                    _create_capa_history(capa_history, id, "Completed", employee_id,
                                         capas[id].status, "PENDING VERIFICATION"),
                    TRUE, "CAPA completed successfully and sent for review", TRUE)

\* closes the CAPA whatever its status
close_capa_unguarded(id, admin_id) ==
    IF ~CapaFound(id) THEN CapaFail("CAPA not found")
    ELSE CapaResult([capas EXCEPT ![id].status = "CLOSED", ![id].closed_date = STAMPED],
                    _create_capa_history(capa_history, id, "Closed", admin_id,
                                         capas[id].status, "CLOSED"),
                    TRUE, "CAPA closed successfully", TRUE)

close_capa(id, admin_id) ==
    IF ~CapaFound(id) THEN CapaFail("CAPA not found")
    ELSE IF capas[id].status # "PENDING VERIFICATION"
    THEN CapaFail("CAPA must be PENDING VERIFICATION")
    ELSE CapaResult([capas EXCEPT ![id].status = "CLOSED", ![id].closed_date = STAMPED],
                    _create_capa_history(capa_history, id, "Closed", admin_id,
                                         capas[id].status, "CLOSED"),
                    TRUE, "CAPA closed successfully", TRUE)

\* sends the CAPA back without the history record
send_back_capa_unlogged(id, admin_id) ==
    IF ~CapaFound(id) THEN CapaFail("CAPA not found")
    ELSE IF capas[id].status # "PENDING VERIFICATION"
    THEN CapaFail("CAPA must be PENDING VERIFICATION")
    ELSE IF capas[id].assigned_to = NULL
    THEN CapaFail("CAPA has no assigned employee to send back to")
    ELSE CapaResult([capas EXCEPT ![id].status = "SENT BACK"], capa_history,
                    TRUE, "CAPA sent back successfully", TRUE)

send_back_capa(id, admin_id) ==
    IF ~CapaFound(id) THEN CapaFail("CAPA not found")
    ELSE IF capas[id].status # "PENDING VERIFICATION"
    THEN CapaFail("CAPA must be PENDING VERIFICATION")
    ELSE IF capas[id].assigned_to = NULL
    THEN CapaFail("CAPA has no assigned employee to send back to")
    ELSE CapaResult([capas EXCEPT ![id].status = "SENT BACK"],
                    _create_capa_history(capa_history, id, "Sent Back", admin_id,
                                         capas[id].status, "SENT BACK"),
                    TRUE, "CAPA sent back successfully", TRUE)

(***************************************************************************)
(* Change Control workflow: services/changecontrolservice.py               *)
(***************************************************************************)
ChangeControlIds == {1}

ChangeStatusEnum == {"Submitted", "Reviewed", "Approved", "Rejected"}

\* session.query(ChangeControl).filter(ChangeControl.id == id).first()
ChangeControlFound(id) == id \in DOMAIN change_controls

ChangeControlHistory(id, action, performed_by_id, previous_status, new_status) ==
    [change_control_id |-> id, action |-> action, performed_by_id |-> performed_by_id,
     previous_status |-> previous_status, new_status |-> new_status]

ChangeResult(rows, history, ok, message, wrote) ==
    [change_controls |-> rows, change_control_history |-> history, ok |-> ok,
     message |-> message, wrote_status |-> wrote]

ChangeFail(message) == ChangeResult(change_controls, change_control_history, FALSE, message, FALSE)

\* the comments argument of review_change_control / approve_change_control
RequestComments == "comments"

\* str.lower() on the action values the model sends
Lower(a) == IF a = "Reject" THEN "reject" ELSE a

create_change_control(id, reviewer_id, approver_id, requester_id) ==
    ChangeResult(id :> [status |-> "Submitted", reviewer_id |-> reviewer_id,
                        approver_id |-> approver_id, requester_id |-> requester_id,
                        review_date |-> NULL, review_comments |-> NULL,
                        approval_date |-> NULL, approval_comments |-> NULL] @@ change_controls,
                 Append(change_control_history,
                        ChangeControlHistory(id, "Submitted", requester_id, NULL, "Submitted")),
                 TRUE, "Change control request created successfully", FALSE)

\* lets any caller review
review_change_control_any_caller(id, reviewer_id, action) ==
    IF ~ChangeControlFound(id) THEN ChangeFail("Change control not found")
    ELSE IF change_controls[id].status # "Submitted"
    THEN ChangeFail("Change control is not in submitted status for review")
    ELSE IF Lower(action) \notin {"approve", "reject"}
    THEN ChangeFail("Invalid action. Use 'approve' or 'reject'")
    ELSE LET new_status == IF Lower(action) = "approve" THEN "Reviewed" ELSE "Rejected"
         IN ChangeResult([change_controls EXCEPT ![id].status = new_status,
                                                 ![id].review_comments = RequestComments,
                                                 ![id].review_date = STAMPED],
                         Append(change_control_history,
                                ChangeControlHistory(id, new_status, reviewer_id,
                                                     change_controls[id].status, new_status)),
                         TRUE, "Change control reviewed successfully", TRUE)

review_change_control(id, reviewer_id, action) ==
    IF ~ChangeControlFound(id) THEN ChangeFail("Change control not found")
    ELSE IF change_controls[id].reviewer_id # reviewer_id
    THEN ChangeFail("You are not authorized to review this change control")
    ELSE IF change_controls[id].status # "Submitted"
    THEN ChangeFail("Change control is not in submitted status for review")
    ELSE IF Lower(action) \notin {"approve", "reject"}
    THEN ChangeFail("Invalid action. Use 'approve' or 'reject'")
    ELSE LET new_status == IF Lower(action) = "approve" THEN "Reviewed" ELSE "Rejected"
         IN ChangeResult([change_controls EXCEPT ![id].status = new_status,
                                                 ![id].review_comments = RequestComments,
                                                 ![id].review_date = STAMPED],
                         Append(change_control_history,
                                ChangeControlHistory(id, new_status, reviewer_id,
                                                     change_controls[id].status, new_status)),
                         TRUE, "Change control reviewed successfully", TRUE)

\* approves or rejects whatever the status
approve_change_control_any_status(id, approver_id, action) ==
    IF ~ChangeControlFound(id) THEN ChangeFail("Change control not found")
    ELSE IF change_controls[id].approver_id # approver_id
    THEN ChangeFail("You are not authorized to approve this change control")
    ELSE IF Lower(action) \notin {"approve", "reject"}
    THEN ChangeFail("Invalid action. Use 'approve' or 'reject'")
    ELSE LET new_status == IF Lower(action) = "approve" THEN "Approved" ELSE "Rejected"
         IN ChangeResult([change_controls EXCEPT ![id].status = new_status,
                                                 ![id].approval_comments = RequestComments,
                                                 ![id].approval_date = STAMPED],
                         Append(change_control_history,
                                ChangeControlHistory(id, new_status, approver_id,
                                                     change_controls[id].status, new_status)),
                         TRUE, "Change control approved successfully", TRUE)

approve_change_control(id, approver_id, action) ==
    IF ~ChangeControlFound(id) THEN ChangeFail("Change control not found")
    ELSE IF change_controls[id].approver_id # approver_id
    THEN ChangeFail("You are not authorized to approve this change control")
    ELSE IF change_controls[id].status # "Reviewed"
    THEN ChangeFail("Change control must be reviewed before approval")
    ELSE IF Lower(action) \notin {"approve", "reject"}
    THEN ChangeFail("Invalid action. Use 'approve' or 'reject'")
    ELSE LET new_status == IF Lower(action) = "approve" THEN "Approved" ELSE "Rejected"
         IN ChangeResult([change_controls EXCEPT ![id].status = new_status,
                                                 ![id].approval_comments = RequestComments,
                                                 ![id].approval_date = STAMPED],
                         Append(change_control_history,
                                ChangeControlHistory(id, new_status, approver_id,
                                                     change_controls[id].status, new_status)),
                         TRUE, "Change control approved successfully", TRUE)

\* the row or None: filter(id, reviewer_id == caller, deleted_at IS NULL)
get_change_control_for_review(id, reviewer_id) ==
    ChangeControlFound(id) /\ change_controls[id].reviewer_id = reviewer_id

\* the row or None: filter(id, approver_id == caller, status == reviewed, deleted_at IS NULL)
get_change_control_for_approval(id, approver_id) ==
    /\ ChangeControlFound(id)
    /\ change_controls[id].approver_id = approver_id
    /\ change_controls[id].status = "Reviewed"

(***************************************************************************)
(* Training assignments: services/trainingassignmentservice.py             *)
(***************************************************************************)
TrainingAssignmentIds == {1}

TrainingAssignmentStatusEnum == {"Assigned", "In Progress", "Completed", "Cancelled"}

\* one training assigned to one employee
assign_trainings_to_employees(id, employee_id, due_date, assigned_by) ==
    id :> [employee_id |-> employee_id, assigned_by |-> assigned_by, status |-> "Assigned",
           due_date |-> due_date, completion_date |-> NULL] @@ training_assignments

\* the ids of the assignments of the employee
get_training_assignments(employee_id) ==
    {id \in DOMAIN training_assignments : training_assignments[id].employee_id = employee_id}

\* the table after the update, or the table as it is when the function
\* returns False
update_assignment_status(id, status, completion_date) ==
    IF id \notin DOMAIN training_assignments \/ status \notin TrainingAssignmentStatusEnum
    THEN training_assignments
    ELSE [training_assignments EXCEPT
             ![id].status = status,
             ![id].completion_date =
                 IF completion_date # NULL /\ status = "Completed" THEN STAMPED ELSE @]

(***************************************************************************)
(* Notifications: services/notificationsservice.py.  now is utcnow().      *)
(***************************************************************************)
\* Python strings as the pieces they are written from: a literal is one
\* piece, str() of a member of a (str, Enum) class is the class name, a dot
\* and the member name
Literal(text) == <<text>>

EnumStr(class, member) == <<class, ".", member>>

Notification(title, message, kind, id) ==
    [title |-> title, message |-> message, kind |-> kind, id |-> id]

\* the ids of a table in the order the query returns them
RECURSIVE IdSeq(_)
IdSeq(ids) ==
    IF ids = {} THEN <<>>
    ELSE LET first == CHOOSE i \in ids : \A j \in ids : i <= j
         IN <<first>> \o IdSeq(ids \ {first})

\* notifications.append(...) in the order of the loop: the lists joined
RECURSIVE Concat(_)
Concat(lists) == IF lists = <<>> THEN <<>> ELSE Head(lists) \o Concat(Tail(lists))

TrainingNotifications(current_user_id, now) ==
    LET tomorrow == now + 1
        Each(id) ==
            LET a == training_assignments[id]
            IN IF /\ a.status \in {"Assigned", "In Progress"}
                  /\ a.due_date # NoDate /\ a.due_date <= tomorrow
               THEN <<Notification("Training Due",
                                   IF a.due_date > now THEN "training expires tomorrow"
                                   ELSE "training overdue",
                                   "TrainingAssignment", id)>>
               ELSE <<>>
        ids == IdSeq({id \in DOMAIN training_assignments :
                         current_user_id # NULL
                             => training_assignments[id].employee_id = current_user_id})
    IN Concat([i \in 1..Len(ids) |-> Each(ids[i])])

\* the due date is looked at before the status
CapaNotifications_due_date_first(now) ==
    LET Each(id) ==
            LET c == capas[id]
            IN IF c.due_date # NoDate /\ c.due_date < now
               THEN <<Notification("CAPA Overdue", "requires action", "CAPA", id)>>
               ELSE IF c.status = "PENDING VERIFICATION"
               THEN <<Notification("CAPA Pending Review", "requires action", "CAPA", id)>>
               ELSE <<>>
        ids == IdSeq(DOMAIN capas)
    IN Concat([i \in 1..Len(ids) |-> Each(ids[i])])

CapaNotifications(now) ==
    LET Each(id) ==
            LET c == capas[id]
            IN IF c.status = "PENDING VERIFICATION"
               THEN <<Notification("CAPA Pending Review", "requires action", "CAPA", id)>>
               ELSE IF c.status = "OPEN" /\ c.due_date # NoDate /\ c.due_date < now
               THEN <<Notification("CAPA Overdue", "requires action", "CAPA", id)>>
               ELSE <<>>
        ids == IdSeq(DOMAIN capas)
    IN Concat([i \in 1..Len(ids) |-> Each(ids[i])])

DocumentNotifications ==
    LET Each(id) ==
            LET status == EnumStr("DocumentStatusEnum", documents[id].status)
            IN IF status \in {Literal("under_review"), Literal("under_approval")}
               THEN <<Notification(IF status = Literal("under_review") THEN "Document Review"
                                   ELSE "Document Approval",
                                   "pending", "Document", id)>>
               ELSE <<>>
        ids == IdSeq({id \in DOMAIN documents : documents[id].deleted_at = NULL})
    IN Concat([i \in 1..Len(ids) |-> Each(ids[i])])

\* every CAPA that is past its due date is closed while it is listed
get_notifications_closing_overdue(current_user_id, now) ==
    [notifications |-> TrainingNotifications(current_user_id, now) \o CapaNotifications(now)
                           \o DocumentNotifications,
     documents |-> documents,
     capas |-> [id \in DOMAIN capas |->
                   IF capas[id].due_date # NoDate /\ capas[id].due_date < now
                   THEN [capas[id] EXCEPT !.status = "CLOSED"]
                   ELSE capas[id]],
     training_assignments |-> training_assignments]

\* the list returned, and the tables as the session leaves them when it is
\* closed: nothing is added, assigned or committed
get_notifications(current_user_id, now) ==
    [notifications |-> TrainingNotifications(current_user_id, now) \o CapaNotifications(now)
                           \o DocumentNotifications,
     documents |-> documents,
     capas |-> capas,
     training_assignments |-> training_assignments]

(***************************************************************************)
(* HTTP layer.  ret is the response of the last request: the endpoint, the *)
(* authenticated caller, the request argument, the status code and the     *)
(* message (HTTPException detail).                                         *)
(***************************************************************************)
Response(op, actor, arg, id, code, detail) ==
    [op |-> op, actor |-> actor, arg |-> arg, id |-> id, code |-> code, detail |-> detail]

UnchangedDocument == UNCHANGED <<documents, document_reviews>>

UnchangedCAPA == UNCHANGED <<capas, capa_history>>

UnchangedChangeControl == UNCHANGED <<change_controls, change_control_history>>

UnchangedTraining == UNCHANGED training_assignments

\* datetimes by the day: the due dates a request can name (or none) and the
\* values of utcnow() when the notifications are read
DueDateInputs == {NoDate, 2}

Clock == 1..3

\* the auth dependency raised: nothing is called
Rejected(op, actor, arg, id, code, detail) ==
    /\ ret' = Response(op, actor, arg, id, code, detail)
    /\ UnchangedDocument /\ UnchangedCAPA /\ UnchangedChangeControl /\ UnchangedTraining
    /\ UNCHANGED <<transitions, sessions>>

\* the endpoint returns what the document service committed
DocumentResponse(op, actor, arg, id, r, errcode) ==
    /\ Len(r.document_reviews) <= MaxHistory
    /\ documents' = r.documents
    /\ document_reviews' = r.document_reviews
    /\ transitions' = IF r.wrote_status
                      THEN [transitions EXCEPT !.Document[id] = @ + 1]
                      ELSE transitions
    /\ ret' = Response(op, actor, arg, id, IF r.ok THEN 200 ELSE errcode, r.message)
    /\ UnchangedCAPA /\ UnchangedChangeControl /\ UnchangedTraining
    /\ UNCHANGED sessions

\* request bodies: the reviewer named when sending to review, the approver
\* named when sending to approval (neither is validated against a role)
ReviewerIdInputs == {"reviewer1"}

ApproverIdInputs == {"approver1", "employee1"}

ReviewActionInputs == {"review", "Reject", "approve"}

\* The model follows one workflow instance at a time: every service function
\* loads one row by id and writes only that row and its history rows, so an
\* instance is created only while the tables are empty.
NoInstance ==
    documents = <<>> /\ capas = <<>> /\ change_controls = <<>> /\ training_assignments = <<>>

upload_document ==
    \E actor \in {"admin1", "reviewer1", "employee1"}, id \in DocumentIds :
        IF ~document_access_auth(actor)
        THEN Rejected("upload_document", actor, NULL, id, 403, "Access denied")
        ELSE /\ NoInstance
             /\ DocumentResponse("upload_document", actor, NULL, id,
                                 add_document_to_db(id, actor), 500)

delete_document ==
    \E actor \in {"admin1", "employee1"}, id \in DocumentIds :
        IF ~document_access_auth(actor)
        THEN Rejected("delete_document", actor, NULL, id, 403, "Access denied")
        ELSE DocumentResponse("delete_document", actor, NULL, id,
                              delete_document_from_db(id), 404)

send_to_reviewer ==
    \E actor \in {"admin1", "reviewer1"}, id \in DocumentIds, reviewer_id \in ReviewerIdInputs :
        IF ~admin_auth(actor)
        THEN Rejected("send_to_reviewer", actor, reviewer_id, id, 403, "Not an admin user")
        ELSE DocumentResponse("send_to_reviewer", actor, reviewer_id, id,
                              send_document_to_reviewer(id, reviewer_id), 400)

send_to_approver ==
    \E actor \in {"admin1", "reviewer1"}, id \in DocumentIds, approver_id \in ApproverIdInputs :
        IF ~admin_auth(actor)
        THEN Rejected("send_to_approver", actor, approver_id, id, 403, "Not an admin user")
        ELSE DocumentResponse("send_to_approver", actor, approver_id, id,
                              send_document_to_approver(id, approver_id), 400)

reviewer_action ==
    \E actor \in {"reviewer1", "admin1"}, id \in DocumentIds, action \in ReviewActionInputs :
        IF ~reviewer_auth(actor)
        THEN Rejected("reviewer_action", actor, action, id, 403, "Not a reviewer user")
        ELSE IF Lower(action) \notin {"review", "reject"}
        THEN Rejected("reviewer_action", actor, action, id, 400, "Action must be 'review' or 'reject'")
        ELSE DocumentResponse("reviewer_action", actor, action, id,
                              review_document_action(id, actor, Lower(action)), 400)

approve_document_endpoint ==
    \E actor \in Employees, id \in DocumentIds, approved \in BOOLEAN :
        LET arg == IF approved THEN "approved=true" ELSE "approved=false"
        IN IF ~approver_auth(actor)
           THEN Rejected("approve_document_endpoint", actor, arg, id, 403, "Not an approver user")
           ELSE DocumentResponse("approve_document_endpoint", actor, arg, id,
                                 approve_document(id, approved, actor), 400)

add_document_comment_endpoint ==
    \E actor \in {"approver1", "employee1"}, id \in DocumentIds :
        IF ~document_access_auth(actor)
        THEN Rejected("add_document_comment_endpoint", actor, NULL, id, 403, "Access denied")
        ELSE DocumentResponse("add_document_comment_endpoint", actor, NULL, id,
                              add_document_comment(id, actor), 400)

resubmit_document_endpoint ==
    \E actor \in {"admin1", "reviewer1", "approver1", "employee1"}, id \in DocumentIds :
        IF ~document_access_auth(actor)
        THEN Rejected("resubmit_document_endpoint", actor, NULL, id, 403, "Access denied")
        ELSE DocumentResponse("resubmit_document_endpoint", actor, NULL, id,
                              resubmit_rejected_document(id, actor), 400)

fix_document_status_endpoint ==
    \E actor \in {"admin1", "reviewer1"}, id \in DocumentIds :
        IF ~admin_auth(actor)
        THEN Rejected("fix_document_status_endpoint", actor, NULL, id, 403, "Not an admin user")
        ELSE DocumentResponse("fix_document_status_endpoint", actor, NULL, id,
                              fix_document_status(id), 400)

\* the endpoint returns what the CAPA service committed
CapaResponse(op, actor, arg, id, r) ==
    /\ Len(r.capa_history) <= MaxCapaHistory
    /\ capas' = r.capas
    /\ capa_history' = r.capa_history
    /\ transitions' = IF r.wrote_status
                      THEN [transitions EXCEPT !.CAPA[id] = @ + 1]
                      ELSE transitions
    /\ ret' = Response(op, actor, arg, id, IF r.ok THEN 200 ELSE 400, r.message)
    /\ UnchangedDocument /\ UnchangedChangeControl /\ UnchangedTraining
    /\ UNCHANGED sessions

create_new_capa ==
    \E actor \in {"admin1", "employee1"}, id \in CapaIds,
       assigned_to \in {NULL, "employee1", "approver1"}, due_date \in DueDateInputs :
        IF ~admin_auth(actor)
        THEN Rejected("create_new_capa", actor, assigned_to, id, 403, "Not an admin user")
        ELSE /\ NoInstance
             /\ CapaResponse("create_new_capa", actor, assigned_to, id,
                             create_capa(id, assigned_to, due_date, actor))

start_work_on_capa ==
    \E actor \in {"employee1", "employee2", "admin1", NULL}, id \in CapaIds :
        IF ~get_current_user(actor)
        THEN Rejected("start_work_on_capa", actor, NULL, id, 401,
                      "Missing or invalid Authorization header")
        ELSE CapaResponse("start_work_on_capa", actor, NULL, id, start_capa_work(id, actor))

complete_capa_work ==
    \E actor \in {"employee1", "employee2", "admin1", NULL}, id \in CapaIds,
       completion_date \in {NULL, "2025-01-15", "15/01/2025"} :
        IF ~get_current_user(actor)
        THEN Rejected("complete_capa_work", actor, completion_date, id, 401,
                      "Missing or invalid Authorization header")
        ELSE CapaResponse("complete_capa_work", actor, completion_date, id,
                          complete_capa(id, actor, completion_date))

close_capa_by_admin ==
    \E actor \in {"admin1", "employee1"}, id \in CapaIds :
        IF ~admin_auth(actor)
        THEN Rejected("close_capa_by_admin", actor, NULL, id, 403, "Not an admin user")
        ELSE CapaResponse("close_capa_by_admin", actor, NULL, id, close_capa(id, actor))

send_capa_back ==
    \E actor \in {"admin1", "employee1"}, id \in CapaIds :
        IF ~admin_auth(actor)
        THEN Rejected("send_capa_back", actor, NULL, id, 403, "Not an admin user")
        ELSE CapaResponse("send_capa_back", actor, NULL, id, send_back_capa(id, actor))

reassign_capa ==
    \E actor \in {"admin1", "employee1"}, id \in CapaIds,
       assigned_to \in {"employee1", "employee2", "approver1"} :
        IF ~admin_auth(actor)
        THEN Rejected("reassign_capa", actor, assigned_to, id, 403, "Not an admin user")
        ELSE CapaResponse("reassign_capa", actor, assigned_to, id,
                          assign_capa(id, assigned_to, actor))

\* the endpoint returns what the change control service committed
ChangeResponse(op, actor, arg, id, r) ==
    /\ Len(r.change_control_history) <= MaxChangeHistory
    /\ change_controls' = r.change_controls
    /\ change_control_history' = r.change_control_history
    /\ transitions' = IF r.wrote_status
                      THEN [transitions EXCEPT !.ChangeControl[id] = @ + 1]
                      ELSE transitions
    /\ ret' = Response(op, actor, arg, id, IF r.ok THEN 200 ELSE 400, r.message)
    /\ UnchangedDocument /\ UnchangedCAPA /\ UnchangedTraining
    /\ UNCHANGED sessions

create_change_control_request ==
    \E actor \in {"employee1", "admin1", NULL}, id \in ChangeControlIds,
       reviewer_id \in {"reviewer1", "approver1"}, approver_id \in {"approver1", "reviewer1"} :
        IF ~get_current_user(actor)
        THEN Rejected("create_change_control_request", actor, reviewer_id, id, 401,
                      "Missing or invalid Authorization header")
        ELSE /\ NoInstance
             /\ ChangeResponse("create_change_control_request", actor, reviewer_id, id,
                               create_change_control(id, reviewer_id, approver_id, actor))

review_change_control_request ==
    \E actor \in {"reviewer1", "approver1", "admin1"}, id \in ChangeControlIds,
       action \in {"approve", "Reject", "hold"} :
        IF ~reviewer_auth(actor)
        THEN Rejected("review_change_control_request", actor, action, id, 403, "Not a reviewer user")
        ELSE IF ~get_change_control_for_review(id, actor)
        THEN Rejected("review_change_control_request", actor, action, id, 404,
                      "Change control not found or not assigned to you for review")
        ELSE ChangeResponse("review_change_control_request", actor, action, id,
                            review_change_control(id, actor, action))

approve_change_control_request ==
    \E actor \in {"approver1", "approver2", "reviewer1"}, id \in ChangeControlIds,
       action \in {"approve", "Reject", "hold"} :
        IF ~approver_auth(actor)
        THEN Rejected("approve_change_control_request", actor, action, id, 403, "Not an approver user")
        ELSE IF ~get_change_control_for_approval(id, actor)
        THEN Rejected("approve_change_control_request", actor, action, id, 404,
                      "Change control not found or not ready for your approval")
        ELSE ChangeResponse("approve_change_control_request", actor, action, id,
                            approve_change_control(id, actor, action))

(***************************************************************************)
(* Requests in flight.  A service function opens its own session, SELECTs  *)
(* the row (no FOR UPDATE, no version column), checks and changes the      *)
(* loaded object, and session.commit() flushes an UPDATE of the changed    *)
(* columns WHERE id = :id together with the INSERT of the history row.     *)
(***************************************************************************)
Workers == {"w1", "w2"}

Idle == [pc |-> "idle"]

\* the columns the session changed on the loaded object
RowUpdate(loaded, changed) ==
    [c \in {c \in DOMAIN changed : changed[c] # loaded[c]} |-> changed[c]]

\* UPDATE ... SET <changed columns> WHERE id = :id
ApplyUpdate(row, update) ==
    [c \in DOMAIN row |-> IF c \in DOMAIN update THEN update[c] ELSE row[c]]

\* the rows session.add() queued: those the call appended to the table it read
Inserted(before, after) == SubSeq(after, Len(before) + 1, Len(after))

Loaded(op, actor, arg, kind, id, update, insert, wrote, message) ==
    [pc |-> "loaded", op |-> op, actor |-> actor, arg |-> arg, kind |-> kind, id |-> id,
     update |-> update, insert |-> insert, wrote_status |-> wrote, message |-> message]

\* SELECT and checks of a document service call; a failed check returns at once
DocumentQuery(w, op, actor, arg, id, r) ==
    /\ IF r.ok
       THEN /\ sessions' = [sessions EXCEPT ![w] =
                   Loaded(op, actor, arg, "Document", id,
                          RowUpdate(documents[id], r.documents[id]),
                          Inserted(document_reviews, r.document_reviews),
                          r.wrote_status, r.message)]
            /\ UNCHANGED <<transitions, ret>>
       ELSE /\ ret' = Response(op, actor, arg, id, 400, r.message)
            /\ UNCHANGED <<transitions, sessions>>
    /\ UnchangedDocument /\ UnchangedCAPA /\ UnchangedChangeControl /\ UnchangedTraining

\* SELECT and checks of a CAPA service call
CapaQuery(w, op, actor, arg, id, r) ==
    /\ IF r.ok
       THEN /\ sessions' = [sessions EXCEPT ![w] =
                   Loaded(op, actor, arg, "CAPA", id,
                          RowUpdate(capas[id], r.capas[id]),
                          Inserted(capa_history, r.capa_history),
                          r.wrote_status, r.message)]
            /\ UNCHANGED <<transitions, ret>>
       ELSE /\ ret' = Response(op, actor, arg, id, 400, r.message)
            /\ UNCHANGED <<transitions, sessions>>
    /\ UnchangedDocument /\ UnchangedCAPA /\ UnchangedChangeControl /\ UnchangedTraining

review_document_action_query ==
    \E w \in Workers, id \in DocumentIds, action \in {"review", "reject"} :
        /\ sessions[w] = Idle
        /\ DocumentQuery(w, "reviewer_action", "reviewer1", action, id,
                         review_document_action(id, "reviewer1", action))

send_document_to_approver_query ==
    \E w \in Workers, id \in DocumentIds :
        /\ sessions[w] = Idle
        /\ DocumentQuery(w, "send_to_approver", "admin1", "approver1", id,
                         send_document_to_approver(id, "approver1"))

close_capa_query ==
    \E w \in Workers, id \in CapaIds :
        /\ sessions[w] = Idle
        /\ CapaQuery(w, "close_capa_by_admin", "admin1", NULL, id, close_capa(id, "admin1"))

send_back_capa_query ==
    \E w \in Workers, id \in CapaIds :
        /\ sessions[w] = Idle
        /\ CapaQuery(w, "send_capa_back", "admin1", NULL, id, send_back_capa(id, "admin1"))

\* session.commit(): the UPDATE and the INSERT become visible together
session_commit ==
    \E w \in Workers :
        LET s == sessions[w] IN
        /\ s # Idle
        /\ IF s.kind = "Document"
           THEN /\ Len(document_reviews \o s.insert) <= MaxHistory
                /\ documents' = [documents EXCEPT ![s.id] = ApplyUpdate(@, s.update)]
                /\ document_reviews' = document_reviews \o s.insert
                /\ UnchangedCAPA
           ELSE /\ Len(capa_history \o s.insert) <= MaxCapaHistory
                /\ capas' = [capas EXCEPT ![s.id] = ApplyUpdate(@, s.update)]
                /\ capa_history' = capa_history \o s.insert
                /\ UnchangedDocument
        /\ transitions' = IF s.wrote_status
                          THEN [transitions EXCEPT ![s.kind][s.id] = @ + 1]
                          ELSE transitions
        /\ ret' = Response(s.op, s.actor, s.arg, s.id, 200, s.message)
        /\ sessions' = [sessions EXCEPT ![w] = Idle]
        /\ UnchangedChangeControl /\ UnchangedTraining

(***************************************************************************)
(* The program.                                                            *)
(***************************************************************************)
\* the endpoint returns after the training assignment service committed
TrainingResponse(op, actor, arg, id, table) ==
    /\ training_assignments' = table
    /\ ret' = Response(op, actor, arg, id, 200, "")
    /\ UnchangedDocument /\ UnchangedCAPA /\ UnchangedChangeControl
    /\ UNCHANGED <<transitions, sessions>>

assign_training_to_users ==
    \E actor \in {"admin1", "employee1"}, id \in TrainingAssignmentIds,
       employee_id \in {"employee1", "reviewer1"}, due_date \in DueDateInputs :
        IF ~admin_auth(actor)
        THEN Rejected("assign_training_to_users", actor, employee_id, id, 403, "Not an admin user")
        ELSE /\ NoInstance
             /\ TrainingResponse("assign_training_to_users", actor, employee_id, id,
                                 assign_trainings_to_employees(id, employee_id, due_date, actor))

start_course ==
    \E actor \in {"employee1", "reviewer1", "admin1"}, id \in TrainingAssignmentIds :
        IF ~employee_auth(actor)
        THEN Rejected("start_course", actor, NULL, id, 403,
                      "Admins cannot access employee-specific APIs")
        ELSE IF id \notin get_training_assignments(actor)
        THEN Rejected("start_course", actor, NULL, id, 404,
                      "Training assignment not found or access denied")
        ELSE TrainingResponse("start_course", actor, NULL, id,
                              update_assignment_status(id, "In Progress", NULL))

complete_course ==
    \E actor \in {"employee1", "reviewer1", "admin1"}, id \in TrainingAssignmentIds :
        IF ~employee_auth(actor)
        THEN Rejected("complete_course", actor, NULL, id, 403,
                      "Admins cannot access employee-specific APIs")
        ELSE IF id \notin get_training_assignments(actor)
        THEN Rejected("complete_course", actor, NULL, id, 404,
                      "Training assignment not found or access denied")
        ELSE TrainingResponse("complete_course", actor, NULL, id,
                              update_assignment_status(id, "Completed", STAMPED))

\* GET /notifications at the time now; the response carries the list
list_notifications ==
    \E actor \in {"employee1", "admin1", NULL}, now \in Clock :
        IF ~get_current_user(actor)
        THEN Rejected("list_notifications", actor, NULL, 0, 401,
                      "Missing or invalid Authorization header")
        ELSE LET r == get_notifications(actor, now)
             IN /\ documents' = r.documents
                /\ capas' = r.capas
                /\ training_assignments' = r.training_assignments
                /\ ret' = [now |-> now, notifications |-> r.notifications]
                               @@ Response("list_notifications", actor, NULL, 0, 200, "")
                /\ UNCHANGED <<document_reviews, capa_history>>
                /\ UnchangedChangeControl
                /\ UNCHANGED <<transitions, sessions>>

Init ==
    /\ documents = <<>>
    /\ document_reviews = <<>>
    /\ capas = <<>>
    /\ capa_history = <<>>
    /\ change_controls = <<>>
    /\ change_control_history = <<>>
    /\ training_assignments = <<>>
    /\ transitions = [Document |-> [id \in DocumentIds |-> 0],
                      CAPA |-> [id \in CapaIds |-> 0],
                      ChangeControl |-> [id \in ChangeControlIds |-> 0]]
    /\ ret = Response("startup", NULL, NULL, 0, 200, "")
    /\ sessions = [w \in Workers |-> Idle]

Next ==
    \/ upload_document
    \/ delete_document
    \/ send_to_reviewer
    \/ send_to_approver
    \/ reviewer_action
    \/ approve_document_endpoint
    \/ add_document_comment_endpoint
    \/ resubmit_document_endpoint
    \/ fix_document_status_endpoint
    \/ create_new_capa
    \/ start_work_on_capa
    \/ complete_capa_work
    \/ close_capa_by_admin
    \/ send_capa_back
    \/ reassign_capa
    \/ create_change_control_request
    \/ review_change_control_request
    \/ approve_change_control_request
    \/ assign_training_to_users
    \/ start_course
    \/ complete_course
    \/ list_notifications

Spec == Init /\ [][Next]_vars

\* two requests in flight at a time on an instance the endpoints brought to
\* under_review / PENDING VERIFICATION
NextConcurrent ==
    \/ upload_document
    \/ send_to_reviewer
    \/ create_new_capa
    \/ start_work_on_capa
    \/ complete_capa_work
    \/ review_document_action_query
    \/ send_document_to_approver_query
    \/ close_capa_query
    \/ send_back_capa_query
    \/ session_commit

SpecConcurrent == Init /\ [][NextConcurrent]_vars

(***************************************************************************)
(* The service functions called directly, with the arguments any importer  *)
(* of services/ can pass: no auth dependency and no endpoint validation    *)
(* stands between the caller and the function.  ret then holds the         *)
(* function called, its actor argument and 200 / 400 for a truthy / falsy  *)
(* first element of the returned pair (or a raised exception).             *)
(***************************************************************************)
ServiceActionInputs == {"review", "reject", "approve"}

ServiceChangeActionInputs == {"approve", "Reject", "hold"}

\* the call runs alone: no other session is open on the tables
NoSessionOpen == \A w \in Workers : sessions[w] = Idle

add_document_to_db_call ==
    \E uploaded_by \in {"admin1"}, id \in DocumentIds :
        /\ NoInstance
        /\ DocumentResponse("add_document_to_db", uploaded_by, NULL, id,
                            add_document_to_db(id, uploaded_by), 400)

send_document_to_reviewer_call ==
    \E reviewer_id \in ReviewerIdInputs, id \in DocumentIds :
        /\ NoSessionOpen
        /\ DocumentResponse("send_document_to_reviewer", reviewer_id, NULL, id,
                            send_document_to_reviewer(id, reviewer_id), 400)

review_document_action_call ==
    \E reviewer_id \in {"reviewer1"}, id \in DocumentIds, action \in ServiceActionInputs :
        /\ NoSessionOpen
        /\ DocumentResponse("review_document_action", reviewer_id, action, id,
                            review_document_action(id, reviewer_id, action), 400)

send_document_to_approver_call ==
    \E approver_id \in {"approver1"}, id \in DocumentIds :
        /\ NoSessionOpen
        /\ DocumentResponse("send_document_to_approver", approver_id, NULL, id,
                            send_document_to_approver(id, approver_id), 400)

approve_document_call ==
    \E reviewer_id \in {"approver1"}, id \in DocumentIds, approved \in BOOLEAN :
        /\ NoSessionOpen
        /\ DocumentResponse("approve_document", reviewer_id,
                            IF approved THEN "approved=true" ELSE "approved=false", id,
                            approve_document(id, approved, reviewer_id), 400)

resubmit_rejected_document_call ==
    \E uploaded_by \in {"admin1"}, id \in DocumentIds :
        /\ NoSessionOpen
        /\ DocumentResponse("resubmit_rejected_document", uploaded_by, NULL, id,
                            resubmit_rejected_document(id, uploaded_by), 400)

create_capa_call ==
    \E created_by_id \in {"admin1"}, id \in CapaIds, assigned_to \in {NULL, "employee1"} :
        /\ NoInstance
        /\ CapaResponse("create_capa", created_by_id, assigned_to, id,
                           create_capa(id, assigned_to, NoDate, created_by_id))

assign_capa_call ==
    \E assigned_by_id \in {"admin1"}, id \in CapaIds, assigned_to \in {"employee1", "approver1"} :
        /\ NoSessionOpen
        /\ CapaResponse("assign_capa", assigned_by_id, assigned_to, id,
                        assign_capa(id, assigned_to, assigned_by_id))

start_capa_work_call ==
    \E employee_id \in {"employee1", "employee2"}, id \in CapaIds :
        /\ NoSessionOpen
        /\ CapaResponse("start_capa_work", employee_id, NULL, id, start_capa_work(id, employee_id))

complete_capa_call ==
    \E employee_id \in {"employee1", "employee2"}, id \in CapaIds,
       completion_date \in {NULL, "2025-01-15", "15/01/2025"} :
        /\ NoSessionOpen
        /\ CapaResponse("complete_capa", employee_id, completion_date, id,
                        complete_capa(id, employee_id, completion_date))

close_capa_call ==
    \E admin_id \in {"admin1"}, id \in CapaIds :
        /\ NoSessionOpen
        /\ CapaResponse("close_capa", admin_id, NULL, id, close_capa(id, admin_id))

send_back_capa_call ==
    \E admin_id \in {"admin1"}, id \in CapaIds :
        /\ NoSessionOpen
        /\ CapaResponse("send_back_capa", admin_id, NULL, id, send_back_capa(id, admin_id))

create_change_control_call ==
    \E requester_id \in {"employee1"}, id \in ChangeControlIds :
        /\ NoInstance
        /\ ChangeResponse("create_change_control", requester_id, NULL, id,
                             create_change_control(id, "reviewer1", "approver1", requester_id))

review_change_control_call ==
    \E reviewer_id \in {"reviewer1", "approver1"}, id \in ChangeControlIds,
       action \in ServiceChangeActionInputs :
        /\ NoSessionOpen
        /\ ChangeResponse("review_change_control", reviewer_id, action, id,
                          review_change_control(id, reviewer_id, action))

approve_change_control_call ==
    \E approver_id \in {"approver1", "reviewer1"}, id \in ChangeControlIds,
       action \in ServiceChangeActionInputs :
        /\ NoSessionOpen
        /\ ChangeResponse("approve_change_control", approver_id, action, id,
                          approve_change_control(id, approver_id, action))

NextService ==
    \/ add_document_to_db_call
    \/ send_document_to_reviewer_call
    \/ review_document_action_call
    \/ send_document_to_approver_call
    \/ approve_document_call
    \/ resubmit_rejected_document_call
    \/ create_capa_call
    \/ assign_capa_call
    \/ start_capa_work_call
    \/ complete_capa_call
    \/ close_capa_call
    \/ send_back_capa_call
    \/ create_change_control_call
    \/ review_change_control_call
    \/ approve_change_control_call

SpecService == Init /\ [][NextService]_vars

(***************************************************************************)
(* Properties.                                                             *)
(***************************************************************************)
\* the review history of a document: the document_reviews rows of the
\* workflow; rows with action "comment" are the comments stored in the table
DocumentHistory(id) ==
    SelectSeq(document_reviews, LAMBDA r : r.document_id = id /\ r.action # "comment")

CapaHistory(id) == SelectSeq(capa_history, LAMBDA r : r.capa_id = id)

ChangeHistory(id) == SelectSeq(change_control_history, LAMBDA r : r.change_control_id = id)

\* the status a document service writes together with a review row of this action
StatusRecorded(action) ==
    CASE action = "sent_to_reviewer" -> "under_review"
      [] action = "review" -> "under_review"
      [] action = "reject" -> "rejected"
      [] action = "sent_to_approver" -> "under_approval"
      [] action = "approve" -> "approved"
      [] action = "resubmitted" -> "draft"
      [] OTHER -> NULL

DocumentNoteActions == {"comment"}

CapaNoteActions == {"Created", "Assigned", "Reassigned"}

ChangeNoteActions == {"Submitted"}

InvalidStateMessages ==
    {"Document must be in draft status", "Document must be under review",
     "Document must be under approval", "Document must be in rejected status",
     "CAPA must be in OPEN or SENT BACK status", "CAPA must be IN PROGRESS",
     "CAPA must be PENDING VERIFICATION",
     "Change control is not in submitted status for review",
     "Change control must be reviewed before approval"}

\* the endpoints of the workflow edges
EdgeEndpoints ==
    {"send_to_reviewer", "reviewer_action", "send_to_approver", "approve_document_endpoint",
     "resubmit_document_endpoint", "start_work_on_capa", "complete_capa_work",
     "close_capa_by_admin", "send_capa_back", "review_change_control_request",
     "approve_change_control_request"}

\* the service call of the last request, made once more with the same arguments
SameCallAgain ==
    CASE ret.op = "send_to_reviewer" -> send_document_to_reviewer(ret.id, ret.arg)
      [] ret.op = "reviewer_action" -> review_document_action(ret.id, ret.actor, Lower(ret.arg))
      [] ret.op = "send_to_approver" -> send_document_to_approver(ret.id, ret.arg)
      [] ret.op = "approve_document_endpoint" ->
             approve_document(ret.id, ret.arg = "approved=true", ret.actor)
      [] ret.op = "resubmit_document_endpoint" -> resubmit_rejected_document(ret.id, ret.actor)
      [] ret.op = "start_work_on_capa" -> start_capa_work(ret.id, ret.actor)
      [] ret.op = "complete_capa_work" -> complete_capa(ret.id, ret.actor, ret.arg)
      [] ret.op = "close_capa_by_admin" -> close_capa(ret.id, ret.actor)
      [] ret.op = "send_capa_back" -> send_back_capa(ret.id, ret.actor)
      [] ret.op = "review_change_control_request" ->
             review_change_control(ret.id, ret.actor, ret.arg)
      [] ret.op = "approve_change_control_request" ->
             approve_change_control(ret.id, ret.actor, ret.arg)

\* the call committed nothing
CommitsNothing(r) ==
    CASE "documents" \in DOMAIN r ->
             r.documents = documents /\ r.document_reviews = document_reviews
      [] "capas" \in DOMAIN r ->
             r.capas = capas /\ r.capa_history = capa_history
      [] OTHER ->
             /\ r.change_controls = change_controls
             /\ r.change_control_history = change_control_history

RefusedAsInvalidState(r) ==
    ~r.ok /\ r.message \in InvalidStateMessages /\ CommitsNothing(r)

LeavesVerification(r) ==
    r.previous_status = "PENDING VERIFICATION" /\ r.new_status # "PENDING VERIFICATION"

EntersVerification(r) ==
    r.new_status = "PENDING VERIFICATION" /\ r.previous_status # "PENDING VERIFICATION"

\* C4: of a close_capa and a send_back_capa racing on a CAPA in PENDING
\* VERIFICATION only one commits: the history never holds a 'Closed' row and a
\* 'Sent Back' row that both leave PENDING VERIFICATION without a row between
\* them that enters it again.
C4_OneExitPerVerification ==
    \A id \in DOMAIN capas :
        LET h == CapaHistory(id)
        IN \A i, j \in DOMAIN h :
              (/\ i < j
               /\ {h[i].action, h[j].action} = {"Closed", "Sent Back"}
               /\ LeavesVerification(h[i]) /\ LeavesVerification(h[j]))
                  => \E k \in (i + 1)..(j - 1) : EntersVerification(h[k])

\* a reviewer's reject row (the approver's reject row is written by an Approver)
ReviewerReject(r) == r.action = "reject" /\ RoleNameOf(r.reviewer_id) = "Reviewer"

\* C5: of a reviewer's reject and a send_document_to_approver racing on a
\* document under_review at most one commits: a reviewer's 'reject' row and a
\* 'sent_to_approver' row are always separated by a 'sent_to_reviewer' row.
C5_RejectExcludesSendToApprover ==
    \A id \in DOMAIN documents :
        LET h == DocumentHistory(id)
        IN \A i, j \in DOMAIN h :
              (i < j /\ \/ ReviewerReject(h[i]) /\ h[j].action = "sent_to_approver"
                        \/ ReviewerReject(h[j]) /\ h[i].action = "sent_to_approver")
                  => \E k \in (i + 1)..(j - 1) : h[k].action = "sent_to_reviewer"

\* the endpoints of the workflow operations of each kind
DocumentWorkflowEndpoints ==
    {"send_to_reviewer", "reviewer_action", "send_to_approver", "approve_document_endpoint",
     "resubmit_document_endpoint"}

CapaWorkflowEndpoints ==
    {"start_work_on_capa", "complete_capa_work", "close_capa_by_admin", "send_capa_back",
     "reassign_capa"}

ChangeWorkflowEndpoints == {"review_change_control_request", "approve_change_control_request"}

DocumentTables == <<documents, document_reviews>>

CapaTables == <<capas, capa_history>>

ChangeTables == <<change_controls, change_control_history>>

\* the instance the next request addresses exists and is in a terminal state
TerminalDocument(id) == id \in DOMAIN documents /\ documents[id].status \in {"approved", "archived"}

TerminalCapa(id) == id \in DOMAIN capas /\ capas[id].status = "CLOSED"

TerminalChange(id) ==
    id \in DOMAIN change_controls /\ change_controls[id].status \in {"Approved", "Rejected"}

\* C6: an instance in a terminal state accepts no further operation: every
\* workflow operation on an approved/archived Document, a CLOSED CAPA
\* (assign_capa included) or an Approved/Rejected Change Control answers with
\* an error and changes neither the instance nor its history.
C6_TerminalAcceptsNothing ==
    [][/\ (ret'.op \in DocumentWorkflowEndpoints /\ TerminalDocument(ret'.id))
             => ret'.code # 200 /\ UNCHANGED DocumentTables
       /\ (ret'.op \in CapaWorkflowEndpoints /\ TerminalCapa(ret'.id))
             => ret'.code # 200 /\ UNCHANGED CapaTables
       /\ (ret'.op \in ChangeWorkflowEndpoints /\ TerminalChange(ret'.id))
             => ret'.code # 200 /\ UNCHANGED ChangeTables]_vars

\* C7: a Document in status under_approval has its assigned_approver_id set.
C7_UnderApprovalHasApprover ==
    \A id \in DOMAIN documents :
        documents[id].status = "under_approval" => documents[id].assigned_approver_id # NULL

\* send_document_to_approver has put a document under approval
C7_Witness ==
    /\ ret.op = "send_to_approver" /\ ret.code = 200
    /\ documents[ret.id].status = "under_approval"

\* the request commits a rejection of the document it addresses
Rejection ==
    /\ ret'.op \in {"reviewer_action", "approve_document_endpoint"} /\ ret'.code = 200
    /\ documents[ret'.id].status \in {"under_review", "under_approval"}
    /\ documents'[ret'.id].status = "rejected"

\* C8: every rejection of a Document, by the reviewer from under_review or by
\* the approver from under_approval, sets the version to (major+1).0, major
\* being the major component of the version held just before the rejection.
C8_RejectionBumpsMajor ==
    [][Rejection =>
          /\ MajorOf(documents'[ret'.id].version) = MajorOf(documents[ret'.id].version) + 1
          /\ MinorOf(documents'[ret'.id].version) = 0
          /\ Len(SplitDot(documents'[ret'.id].version)) = 2]_vars

\* the approver has rejected a document
C8_Witness ==
    /\ ret.op = "approve_document_endpoint" /\ ret.arg = "approved=false" /\ ret.code = 200
    /\ documents[ret.id].status = "rejected"
    /\ documents[ret.id].version = <<"2", ".", "0">>

\* the request commits a transition of the document it addresses
DocumentTransition ==
    /\ ret'.op \in DocumentWorkflowEndpoints
    /\ ret'.id \in DOMAIN documents
    /\ transitions'.Document[ret'.id] = transitions.Document[ret'.id] + 1

\* C9 as stated: on every committed Document transition the version after the
\* transition is strictly greater, in (major, minor) order, than before.
C9_VersionStrictlyIncreases ==
    [][DocumentTransition =>
          VersionLess(documents[ret'.id].version, documents'[ret'.id].version)]_vars

\* C9 amended: the version is strictly greater after submit for review, after
\* a rejection and after an approval; the reviewer's 'review' and send to
\* approver leave it at 1.1; resubmit resets it to 1.0, below the rejected
\* version.
C9_VersionPolicy ==
    [][DocumentTransition =>
          LET before == documents[ret'.id].version
              after == documents'[ret'.id].version
          IN CASE ret'.op = "resubmit_document_endpoint" ->
                      after = V_1_0 /\ VersionLess(after, before)
               [] ret'.op = "send_to_approver" -> after = before /\ after = V_1_1
               [] ret'.op = "reviewer_action" /\ Lower(ret'.arg) = "review" ->
                      after = before /\ after = V_1_1
               [] OTHER -> VersionLess(before, after)]_vars

\* a rejected document has been resubmitted
C9_Witness ==
    /\ ret.op = "resubmit_document_endpoint" /\ ret.code = 200
    /\ documents[ret.id].status = "draft"
    /\ transitions.Document[ret.id] >= 3

\* C10: for every role of the enumeration other than Approver, the approve
\* endpoint answers an actor of that role with 403 and leaves the document's
\* status, version and history unchanged.
C10_NonApproverForbidden ==
    [][(ret'.op = "approve_document_endpoint" /\ RoleNameOf(ret'.actor) # "Approver")
          => ret'.code = 403 /\ UNCHANGED DocumentTables]_vars

\* an administrator has been refused on a document that awaits approval
C10_Witness ==
    /\ ret.op = "approve_document_endpoint" /\ RoleNameOf(ret.actor) = "Admin"
    /\ ret.code = 403
    /\ ret.id \in DOMAIN documents /\ documents[ret.id].status = "under_approval"

\* the workflow operations of the three services (creation is not one)
WorkflowServices ==
    {"send_document_to_reviewer", "review_document_action", "send_document_to_approver",
     "approve_document", "resubmit_rejected_document", "assign_capa", "start_capa_work",
     "complete_capa", "close_capa", "send_back_capa", "review_change_control",
     "approve_change_control"}

\* after is before with n rows appended
Appends(before, after, n) ==
    Len(after) = Len(before) + n /\ SubSeq(after, 1, Len(before)) = before

OneEntryAppended ==
    \/ /\ Appends(document_reviews, document_reviews', 1)
       /\ UNCHANGED <<capa_history, change_control_history>>
    \/ /\ Appends(capa_history, capa_history', 1)
       /\ UNCHANGED <<document_reviews, change_control_history>>
    \/ /\ Appends(change_control_history, change_control_history', 1)
       /\ UNCHANGED <<document_reviews, capa_history>>

\* C11: all-or-nothing.  Every call of a workflow operation either succeeds
\* and commits its transition with exactly one history entry, or returns an
\* error and commits nothing: no status, derived-field or history change.
\* That includes an unrecognised action value and a malformed completion_date.
C11_AllOrNothing ==
    [][ret'.op \in WorkflowServices =>
          \/ ret'.code = 200 /\ OneEntryAppended
          \/ /\ ret'.code # 200
             /\ UNCHANGED <<DocumentTables, CapaTables, ChangeTables>>]_vars

\* the call addresses a stored instance whose status is not one the edge
\* starts from, and its actor is not the instance's reviewer_id / approver_id /
\* assigned_to
WrongStateAndWrongActor ==
    \/ /\ ret'.op = "review_change_control" /\ ChangeControlFound(ret'.id)
       /\ change_controls[ret'.id].status # "Submitted"
       /\ change_controls[ret'.id].reviewer_id # ret'.actor
    \/ /\ ret'.op = "approve_change_control" /\ ChangeControlFound(ret'.id)
       /\ change_controls[ret'.id].status # "Reviewed"
       /\ change_controls[ret'.id].approver_id # ret'.actor
    \/ /\ ret'.op = "start_capa_work" /\ CapaFound(ret'.id)
       /\ capas[ret'.id].status \notin {"OPEN", "SENT BACK"}
       /\ capas[ret'.id].assigned_to # ret'.actor
    \/ /\ ret'.op = "complete_capa" /\ CapaFound(ret'.id)
       /\ capas[ret'.id].status # "IN PROGRESS"
       /\ capas[ret'.id].assigned_to # ret'.actor

\* C12: guards are evaluated state first, actor second.  A call of
\* review_change_control, approve_change_control, start_capa_work or
\* complete_capa on an instance in a wrong state by a wrong actor returns the
\* invalid-state error, not the not-authorized / not-assigned error.
C12_StateGuardFirst ==
    [][WrongStateAndWrongActor => ret'.detail \in InvalidStateMessages]_vars

\* C13: send_document_to_approver assigns only an actor whose role is
\* Approver, and refuses any other target without changing the document: the
\* assigned_approver_id of every document names an Approver-role employee.
C13_AssignedApproverIsApprover ==
    \A id \in DOMAIN documents :
        documents[id].assigned_approver_id # NULL =>
            /\ documents[id].assigned_approver_id \in Employees
            /\ RoleNameOf(documents[id].assigned_approver_id) = "Approver"

\* the request names an assignee who is not an Employee-role user
AssignsNonEmployee ==
    /\ ret'.op \in {"create_new_capa", "reassign_capa"}
    /\ admin_auth(ret'.actor)
    /\ ret'.arg # NULL /\ ~(ret'.arg \in Employees /\ RoleNameOf(ret'.arg) = "Employee")

C15_StartWorkGuard ==
    [][(ret'.op = "start_work_on_capa" /\ CapaFound(ret'.id)) =>
          IF /\ capas[ret'.id].status \in {"OPEN", "SENT BACK"}
             /\ ret'.actor \in Employees /\ capas[ret'.id].assigned_to = ret'.actor
          THEN /\ ret'.code = 200
               /\ capas' = [capas EXCEPT ![ret'.id].status = "IN PROGRESS",
                                         ![ret'.id].started_date = STAMPED]
          ELSE ret'.code # 200 /\ UNCHANGED CapaTables]_vars

\* the assignee has started work again on a CAPA that was sent back
C15_Witness ==
    /\ ret.op = "start_work_on_capa" /\ ret.code = 200
    /\ capas[ret.id].status = "IN PROGRESS" /\ capas[ret.id].assigned_to = ret.actor
    /\ \E i \in DOMAIN capa_history :
          /\ capa_history[i].action = "Sent Back"
          /\ capa_history[Len(capa_history)].previous_status = "SENT BACK"

\* the history holds a Submitted->Reviewed row of the reviewer before a
\* Reviewed->Approved row of the approver
ReviewedThenApproved(id) ==
    LET h == ChangeHistory(id)
    IN \E i, j \in DOMAIN h :
          /\ i < j
          /\ h[i].previous_status = "Submitted" /\ h[i].new_status = "Reviewed"
          /\ h[i].performed_by_id = change_controls[id].reviewer_id
          /\ h[j].previous_status = "Reviewed" /\ h[j].new_status = "Approved"
          /\ h[j].performed_by_id = change_controls[id].approver_id

\* C16: a Change Control is Approved only after it was Reviewed: its history
\* holds a Submitted->Reviewed entry by its reviewer_id before the
\* Reviewed->Approved entry by its approver_id, and approve_change_control
\* succeeds only from Reviewed and only for the approver_id.
C16_ApprovedOnlyAfterReviewed ==
    [][/\ (ret'.op = "approve_change_control" /\ ret'.code = 200) =>
             /\ change_controls[ret'.id].status = "Reviewed"
             /\ change_controls[ret'.id].approver_id = ret'.actor
       /\ \A id \in DOMAIN change_controls' :
             change_controls'[id].status = "Approved" => ReviewedThenApproved(id)']_vars

\* the approver has approved a reviewed change control
C16_Witness ==
    /\ ret.op = "approve_change_control" /\ ret.code = 200
    /\ change_controls[ret.id].status = "Approved"
    /\ change_controls[ret.id].approval_date = STAMPED

\* C17: review_change_control changes a Change Control only when the caller
\* is its reviewer_id and its status is Submitted; 'approve' then yields
\* Reviewed and 'reject' yields Rejected, with review_date and
\* review_comments set.  For any other caller nothing is committed.
C17_ReviewOnlyByReviewer ==
    [][(ret'.op = "review_change_control" /\ ChangeControlFound(ret'.id)) =>
          IF /\ change_controls[ret'.id].reviewer_id = ret'.actor
             /\ change_controls[ret'.id].status = "Submitted"
             /\ Lower(ret'.arg) \in {"approve", "reject"}
          THEN /\ ret'.code = 200
               /\ change_controls' =
                      [change_controls EXCEPT
                          ![ret'.id].status =
                              IF Lower(ret'.arg) = "approve" THEN "Reviewed" ELSE "Rejected",
                          ![ret'.id].review_date = STAMPED,
                          ![ret'.id].review_comments = RequestComments]
          ELSE ret'.code # 200 /\ UNCHANGED ChangeTables]_vars

\* a caller who is not the reviewer_id has been refused on a Submitted
\* change control
C17_Witness ==
    /\ ret.op = "review_change_control" /\ ret.code # 200
    /\ ret.id \in DOMAIN change_controls
    /\ change_controls[ret.id].status = "Submitted"
    /\ change_controls[ret.id].reviewer_id # ret.actor
    /\ change_controls[ret.id].review_date = NULL

\* C18: resubmit_rejected_document succeeds only from status rejected and
\* only for the document's uploader or an Admin, and then sets status draft
\* and version "1.0"; for any other actor the document is unchanged.
C18_ResubmitByUploaderOrAdmin ==
    [][(ret'.op = "resubmit_document_endpoint" /\ DocumentFound(ret'.id)) =>
          IF /\ documents[ret'.id].status = "rejected"
             /\ ret'.actor \in Employees
             /\ \/ ret'.actor = documents[ret'.id].uploaded_by
                \/ RoleNameOf(ret'.actor) = "Admin"
          THEN /\ ret'.code = 200
               /\ documents' = [documents EXCEPT ![ret'.id].status = "draft",
                                                 ![ret'.id].version = V_1_0]
          ELSE ret'.code # 200 /\ UNCHANGED DocumentTables]_vars

\* the number of Document transitions, CAPA transitions and Change Control
\* transitions committed so far
CommittedTransitions ==
    <<[id \in DocumentIds |-> transitions.Document[id]],
      [id \in CapaIds |-> transitions.CAPA[id]],
      [id \in ChangeControlIds |-> transitions.ChangeControl[id]]>>

\* C19 as stated: every step leaves each history as it was or appends one
\* entry to it, and an entry is appended only by a successful transition.
C19_OneEntryPerTransition ==
    [][/\ \E n \in {0, 1} : Appends(document_reviews, document_reviews', n)
       /\ \E n \in {0, 1} : Appends(capa_history, capa_history', n)
       /\ \E n \in {0, 1} : Appends(change_control_history, change_control_history', n)
       /\ <<document_reviews, capa_history, change_control_history>>' #
              <<document_reviews, capa_history, change_control_history>>
            => ret'.code = 200 /\ CommittedTransitions' # CommittedTransitions]_vars

\* C19 amended: history is append-only.  Every step leaves each history as
\* it was or appends to it, one entry, or two when create_capa is given an
\* assignee ('Created' and 'Assigned'); no entry is updated or deleted.  An
\* entry is appended only by a request that succeeds: a transition, or the
\* creation of a CAPA or Change Control, assign_capa or add_document_comment.
C19_AppendOnly ==
    [][/\ \E n \in {0, 1} : Appends(document_reviews, document_reviews', n)
       /\ \E n \in {0, 1, 2} : Appends(capa_history, capa_history', n)
       /\ \E n \in {0, 1} : Appends(change_control_history, change_control_history', n)
       /\ Len(capa_history') = Len(capa_history) + 2
            => ret'.op = "create_new_capa" /\ ret'.arg # NULL
       /\ <<document_reviews, capa_history, change_control_history>>' #
              <<document_reviews, capa_history, change_control_history>>
            => /\ ret'.code = 200
               /\ \/ CommittedTransitions' # CommittedTransitions
                  \/ ret'.op \in {"create_new_capa", "create_change_control_request",
                                  "reassign_capa", "add_document_comment_endpoint"}]_vars

\* a CAPA has been created with an assignee: two entries in one commit
C19_Witness ==
    /\ ret.op = "create_new_capa" /\ ret.code = 200 /\ ret.arg # NULL
    /\ Len(capa_history) = 2
    /\ capa_history[1].action = "Created" /\ capa_history[2].action = "Assigned"

\* the tables and the count of transitions
PersistedState ==
    <<documents, document_reviews, capas, capa_history, change_controls,
      change_control_history, training_assignments, transitions>>

\* C20: a run of the notification scan, at any time and for any caller,
\* leaves every document, review row, CAPA, CAPA history row, change control
\* and training assignment as it was, so the transition that follows any
\* number of runs starts from the state the transition before them left
C20_NotificationsReadOnly ==
    [][ret'.op = "list_notifications" => UNCHANGED <<PersistedState, sessions>>]_vars

\* the scan listed an overdue CAPA that is still OPEN and has its due date
C20_Witness ==
    /\ ret.op = "list_notifications" /\ ret.code = 200
    /\ \E i \in DOMAIN ret.notifications : ret.notifications[i].title = "CAPA Overdue"
    /\ \E id \in DOMAIN capas :
           capas[id].status = "OPEN" /\ capas[id].due_date # NoDate
               /\ capas[id].due_date < ret.now

\* the alerts of the list that are about the row id of the table kind
AlertsFor(notifications, kind, id) ==
    SelectSeq(notifications, LAMBDA n : n.kind = kind /\ n.id = id)

CapaOverdueAlert(notifications, id) ==
    \E i \in DOMAIN notifications :
        /\ notifications[i].kind = "CAPA" /\ notifications[i].id = id
        /\ notifications[i].title = "CAPA Overdue"

\* the list holds an overdue alert for the training assignment
TrainingOverdueAlert(notifications, id) ==
    \E i \in DOMAIN notifications :
        /\ notifications[i].kind = "TrainingAssignment" /\ notifications[i].id = id
        /\ notifications[i].message = "training overdue"

\* C22: whenever the scan runs, a CAPA has an overdue alert exactly when it
\* is OPEN or IN PROGRESS and its due date is earlier than now, and a
\* training assignment (of the caller) has one exactly when it is Assigned
\* or In Progress and its due date is earlier than now
C22_OverdueClassification ==
    \A now \in Clock :
        /\ \A id \in DOMAIN capas :
               CapaOverdueAlert(get_notifications(NULL, now).notifications, id)
                   <=> /\ capas[id].status \in {"OPEN", "IN PROGRESS"}
                       /\ capas[id].due_date # NoDate /\ capas[id].due_date < now
        /\ \A id \in DOMAIN training_assignments :
               TrainingOverdueAlert(get_notifications(NULL, now).notifications, id)
                   <=> /\ training_assignments[id].status \in {"Assigned", "In Progress"}
                       /\ training_assignments[id].due_date # NoDate
                       /\ training_assignments[id].due_date < now

\* the review rows the four steps of the scenario write, in order
ScenarioActions == <<"sent_to_reviewer", "sent_to_approver", "reject", "resubmitted">>

\* the review rows are those of the first k steps of the scenario
ScenarioPrefix(reviews, k) ==
    /\ Len(reviews) = k
    /\ \A i \in 1..k : reviews[i].document_id = 1 /\ reviews[i].action = ScenarioActions[i]

\* document 1 has the status and the version
DocumentIs(docs, status, version) ==
    1 \in DOMAIN docs /\ docs[1].status = status /\ docs[1].version = version

\* C23: along the scenario, the uploaded document is draft "1.0"; sent to the
\* reviewer it is under_review "1.1"; sent to an approver of role Approver it
\* is under_approval; decided with approved=false it is rejected "2.0";
\* resubmitted it is draft "1.0"; each of the four steps appends exactly one
\* review row to the rows of the steps before
C23_DocumentScenario ==
    [][/\ (ret'.op = "upload_document" /\ ret'.code = 200)
            => (DocumentIs(documents', "draft", <<"1", ".", "0">>)
                   /\ ScenarioPrefix(document_reviews', 0))
       /\ (ScenarioPrefix(document_reviews, 0)
               /\ ret'.op = "send_to_reviewer" /\ ret'.code = 200)
            => (DocumentIs(documents', "under_review", <<"1", ".", "1">>)
                   /\ ScenarioPrefix(document_reviews', 1))
       /\ (ScenarioPrefix(document_reviews, 1)
               /\ ret'.op = "send_to_approver" /\ ret'.code = 200
               /\ RoleNameOf(ret'.arg) = "Approver")
            => (1 \in DOMAIN documents' /\ documents'[1].status = "under_approval"
                   /\ ScenarioPrefix(document_reviews', 2))
       /\ (ScenarioPrefix(document_reviews, 2)
               /\ ret'.op = "approve_document_endpoint" /\ ret'.code = 200
               /\ ret'.arg = "approved=false")
            => (DocumentIs(documents', "rejected", <<"2", ".", "0">>)
                   /\ ScenarioPrefix(document_reviews', 3))
       /\ (ScenarioPrefix(document_reviews, 3)
               /\ ret'.op = "resubmit_document_endpoint" /\ ret'.code = 200)
            => (DocumentIs(documents', "draft", <<"1", ".", "0">>)
                   /\ ScenarioPrefix(document_reviews', 4))]_vars

\* the scenario has run to its end
C23_Witness ==
    /\ ret.op = "resubmit_document_endpoint" /\ ret.code = 200
    /\ ScenarioPrefix(document_reviews, 4)
    /\ DocumentIs(documents, "draft", V_1_0)
    /\ transitions.Document[1] = 4

\* the version string every document of the status carries
VersionOfStatus(status) ==
    CASE status = "draft" -> <<"1", ".", "0">>
      [] status \in {"under_review", "under_approval"} -> <<"1", ".", "1">>
      [] status = "approved" -> <<"1", ".", "2">>
      [] status = "rejected" -> <<"2", ".", "0">>
      [] OTHER -> <<>>

\* C24: in every reachable state the version of every document is the one
\* of its status (draft "1.0", under_review and under_approval "1.1",
\* approved "1.2", rejected "2.0"), so the major component never exceeds 2
C24_VersionFunctionOfStatus ==
    \A id \in DOMAIN documents :
        /\ documents[id].version = VersionOfStatus(documents[id].status)
        /\ MajorOf(documents[id].version) <= 2

\* C25: a request to decide a document under approval, assigned to an
\* approver, that comes from another actor of role Approver fails
\* and leaves the document (status, version, approved_at) and the review
\* rows unchanged
C25_OnlyAssignedApproverDecides ==
    [][\A id \in DOMAIN documents :
           (/\ DocumentFound(id) /\ documents[id].status = "under_approval"
            /\ ret'.op = "approve_document_endpoint" /\ ret'.id = id
            /\ RoleNameOf(ret'.actor) = "Approver"
            /\ documents[id].assigned_approver_id \in Employees
            /\ RoleNameOf(documents[id].assigned_approver_id) = "Approver"
            /\ ret'.actor # documents[id].assigned_approver_id)
               => (ret'.code # 200 /\ UNCHANGED <<documents, document_reviews>>)]_vars

\* C26: a CAPA that is IN PROGRESS, PENDING VERIFICATION, SENT BACK or
\* CLOSED has an assignee, and no call of send_back_capa ends in its
\* 'no assigned employee' branch
C26_WorkedCapaHasAssignee ==
    /\ \A id \in DOMAIN capas :
           capas[id].status \in {"IN PROGRESS", "PENDING VERIFICATION", "SENT BACK", "CLOSED"}
               => capas[id].assigned_to # NULL
    /\ ret.detail # "CAPA has no assigned employee to send back to"

\* send_back_capa has sent a CAPA back to its assignee
C26_Witness ==
    /\ ret.op = "send_back_capa" /\ ret.code = 200
    /\ \E id \in DOMAIN capas :
           capas[id].status = "SENT BACK" /\ capas[id].assigned_to \in Employees

(***************************************************************************)
(* The document endpoints on a database that may hold a row from before    *)
(* assigned_approver_id was added to the documents table (the migration    *)
(* c356ec63d55d adds the column as NULL on every existing row).            *)
(***************************************************************************)
LegacyDocuments ==
    {[status |-> status, version |-> VersionOfStatus(status), uploaded_by |-> "admin1",
      assigned_approver_id |-> NULL,
      approved_at |-> IF status = "approved" THEN STAMPED ELSE NULL,
      deleted_at |-> NULL] :
        status \in {"draft", "under_review", "under_approval", "approved", "rejected"}}

InitLegacy ==
    /\ documents \in {<<>>} \cup {<<row>> : row \in LegacyDocuments}
    /\ document_reviews = <<>>
    /\ capas = <<>>
    /\ capa_history = <<>>
    /\ change_controls = <<>>
    /\ change_control_history = <<>>
    /\ training_assignments = <<>>
    /\ transitions = [Document |-> [id \in DocumentIds |-> 0],
                      CAPA |-> [id \in CapaIds |-> 0],
                      ChangeControl |-> [id \in ChangeControlIds |-> 0]]
    /\ ret = Response("startup", NULL, NULL, 0, 200, "")
    /\ sessions = [w \in Workers |-> Idle]

NextLegacy ==
    \/ upload_document
    \/ delete_document
    \/ send_to_reviewer
    \/ send_to_approver
    \/ reviewer_action
    \/ approve_document_endpoint
    \/ add_document_comment_endpoint
    \/ resubmit_document_endpoint
    \/ fix_document_status_endpoint

SpecLegacy == InitLegacy /\ [][NextLegacy]_vars

\* the repair applies to the document: under approval with no approver
NeedsRepair(id) ==
    /\ DocumentFound(id)
    /\ documents[id].status = "under_approval"
    /\ documents[id].assigned_approver_id = NULL

\* C27: send_document_to_approver sets assigned_approver_id together with
\* under_approval, no operation puts a document under approval otherwise or
\* clears the approver, and fix_document_status changes nothing unless the
\* document is under approval with no approver; then it changes the status
\* to under_review and nothing else, neither version nor review rows
C27_FixDocumentStatusFrame ==
    [][\A id \in DOMAIN documents :
           /\ (documents'[id].status = "under_approval"
                   /\ documents[id].status # "under_approval")
                => (ret'.op = "send_to_approver"
                       /\ documents'[id].assigned_approver_id # NULL)
           /\ documents[id].assigned_approver_id # NULL
                => documents'[id].assigned_approver_id # NULL
           /\ (ret'.op = "fix_document_status_endpoint" /\ ~NeedsRepair(id))
                => UNCHANGED <<documents, document_reviews>>
           /\ (ret'.op = "fix_document_status_endpoint" /\ ret'.code = 200
                   /\ NeedsRepair(id))
                => (documents' = [documents EXCEPT ![id].status = "under_review"]
                       /\ UNCHANGED document_reviews)]_vars

\* the repair has run on a document that send_document_to_approver put
\* under approval, and has left it there
C27_Witness ==
    /\ ret.op = "fix_document_status_endpoint" /\ ret.code = 200
    /\ ret.detail = "Document status is correct"
    /\ \E id \in DOMAIN documents :
           /\ documents[id].status = "under_approval"
           /\ documents[id].assigned_approver_id # NULL
           /\ \E i \in DOMAIN document_reviews :
                  document_reviews[i].action = "sent_to_approver"

\* the CAPA is IN PROGRESS and the last row of its history is a reassignment
ReassignedInProgress(id) ==
    /\ CapaFound(id) /\ capas[id].status = "IN PROGRESS"
    /\ capa_history # <<>>
    /\ capa_history[Len(capa_history)].capa_id = id
    /\ capa_history[Len(capa_history)].action = "Reassigned"

\* C28: a successful assign_capa changes assigned_to and no other column,
\* the status least of all, and appends one history row whose previous and
\* new status are the status of the CAPA.  On a CAPA reassigned while IN
\* PROGRESS, complete_capa fails for everyone but the new assignee and
\* changes nothing, and succeeds for the new assignee, who never started
\* work on it
C28_AssignKeepsStatus ==
    [][\A id \in DOMAIN capas :
           /\ (ret'.op = "reassign_capa" /\ ret'.code = 200 /\ ret'.id = id)
                => /\ capas' = [capas EXCEPT ![id].assigned_to = ret'.arg]
                   /\ Appends(capa_history, capa_history', 1)
                   /\ capa_history'[Len(capa_history')].previous_status = capas[id].status
                   /\ capa_history'[Len(capa_history')].new_status = capas[id].status
           /\ (ReassignedInProgress(id) /\ ret'.op = "complete_capa_work" /\ ret'.id = id
                   /\ ret'.actor # capas[id].assigned_to)
                => (ret'.code # 200 /\ UNCHANGED <<capas, capa_history>>)
           /\ (ReassignedInProgress(id) /\ ret'.op = "complete_capa_work" /\ ret'.id = id
                   /\ ret'.actor = capas[id].assigned_to
                   /\ (ret'.arg = NULL \/ IsIsoFormat(ret'.arg)))
                => (ret'.code = 200 /\ capas'[id].status = "PENDING VERIFICATION")]_vars

\* employee1 started the work, the CAPA was reassigned to employee2 while IN
\* PROGRESS, and employee2 completed it without starting work
C28_Witness ==
    /\ ret.op = "complete_capa_work" /\ ret.code = 200 /\ ret.actor = "employee2"
    /\ capas[ret.id].status = "PENDING VERIFICATION"
    /\ Len(capa_history) >= 3
    /\ capa_history[Len(capa_history)].action = "Completed"
    /\ capa_history[Len(capa_history) - 1].action = "Reassigned"
    /\ capa_history[Len(capa_history) - 1].previous_status = "IN PROGRESS"
    /\ \A i \in DOMAIN capa_history :
           capa_history[i].action = "Started Work"
               => capa_history[i].performed_by_id = "employee1"

(***************************************************************************)
(* Change Control requests in flight: review_change_control and            *)
(* approve_change_control open their own session, load the row without a   *)
(* lock and commit the changed columns and the history row.                *)
(***************************************************************************)
\* SELECT and checks of a change control service call
ChangeQuery(w, op, actor, arg, id, r) ==
    /\ IF r.ok
       THEN /\ sessions' = [sessions EXCEPT ![w] =
                   Loaded(op, actor, arg, "ChangeControl", id,
                          RowUpdate(change_controls[id], r.change_controls[id]),
                          Inserted(change_control_history, r.change_control_history),
                          r.wrote_status, r.message)]
            /\ UNCHANGED <<transitions, ret>>
       ELSE /\ ret' = Response(op, actor, arg, id, 400, r.message)
            /\ UNCHANGED <<transitions, sessions>>
    /\ UnchangedDocument /\ UnchangedCAPA /\ UnchangedChangeControl /\ UnchangedTraining

review_change_control_query ==
    \E w \in Workers, id \in ChangeControlIds, action \in {"approve", "reject"} :
        /\ sessions[w] = Idle
        /\ ChangeQuery(w, "review_change_control", "reviewer1", action, id,
                       review_change_control(id, "reviewer1", action))

approve_change_control_query ==
    \E w \in Workers, id \in ChangeControlIds, action \in {"approve", "reject"} :
        /\ sessions[w] = Idle
        /\ ChangeQuery(w, "approve_change_control", "approver1", action, id,
                       approve_change_control(id, "approver1", action))

change_control_commit ==
    \E w \in Workers :
        LET s == sessions[w] IN
        /\ s # Idle
        /\ Len(change_control_history \o s.insert) <= MaxChangeHistory
        /\ change_controls' = [change_controls EXCEPT ![s.id] = ApplyUpdate(@, s.update)]
        /\ change_control_history' = change_control_history \o s.insert
        /\ transitions' = IF s.wrote_status
                          THEN [transitions EXCEPT ![s.kind][s.id] = @ + 1]
                          ELSE transitions
        /\ ret' = Response(s.op, s.actor, s.arg, s.id, 200, s.message)
        /\ sessions' = [sessions EXCEPT ![w] = Idle]
        /\ UnchangedDocument /\ UnchangedCAPA /\ UnchangedTraining

NextConcurrentChange ==
    \/ create_change_control_call
    \/ review_change_control_query
    \/ approve_change_control_query
    \/ change_control_commit

SpecConcurrentChange == Init /\ [][NextConcurrentChange]_vars

\* the review and approval dates of the row are those its status calls for
TimestampsTrackStatus(row) ==
    CASE row.status = "Submitted" -> row.review_date = NULL /\ row.approval_date = NULL
      [] row.status = "Reviewed" -> row.review_date # NULL /\ row.approval_date = NULL
      [] row.status = "Approved" -> row.review_date # NULL /\ row.approval_date # NULL
      [] row.status = "Rejected" -> row.review_date # NULL
      [] OTHER -> FALSE

\* C29: after every step, every Change Control has the dates of its status
\* (Submitted: neither; Reviewed: review_date only; Approved: both;
\* Rejected: review_date), has undergone at most two transitions, and has
\* the reviewer_id, approver_id and requester_id it had before the step
C29_TimestampsTrackStatus ==
    [][\A id \in DOMAIN change_controls' :
           /\ TimestampsTrackStatus(change_controls'[id])
           /\ transitions'.ChangeControl[id] <= 2
           /\ id \in DOMAIN change_controls
                => /\ change_controls'[id].reviewer_id = change_controls[id].reviewer_id
                   /\ change_controls'[id].approver_id = change_controls[id].approver_id
                   /\ change_controls'[id].requester_id = change_controls[id].requester_id]_vars

\* the endpoints of the workflow operations and of the repair
DocumentOperationEndpoints ==
    {"send_to_reviewer", "reviewer_action", "send_to_approver", "approve_document_endpoint",
     "resubmit_document_endpoint", "fix_document_status_endpoint"}

\* the request passed the auth dependency and the validation of the
\* endpoint: the service function was called
ServiceCalled(response) ==
    /\ response.code \notin {401, 403}
    /\ response.detail # "Action must be 'review' or 'reject'"

\* C30: on a soft-deleted document every workflow operation and the repair
\* answer 'Document not found' and leave the document and its review rows
\* as they are; delete_document_from_db, in whatever status, stamps
\* deleted_at and changes no other column and no review row; and a
\* deleted document stays deleted
C30_DeletedDocumentIsFrozen ==
    [][\A id \in DOMAIN documents :
           /\ (documents[id].deleted_at # NULL /\ ret'.id = id
                   /\ ret'.op \in DocumentOperationEndpoints /\ ServiceCalled(ret'))
                => /\ ret'.code # 200 /\ ret'.detail = "Document not found"
                   /\ UNCHANGED <<documents, document_reviews>>
           /\ (ret'.op = "delete_document" /\ ret'.code = 200 /\ ret'.id = id)
                => /\ documents' = [documents EXCEPT ![id].deleted_at = documents'[id].deleted_at]
                   /\ documents'[id].deleted_at # NULL
                   /\ UNCHANGED document_reviews
           /\ documents[id].deleted_at # NULL
                => /\ documents'[id].deleted_at # NULL
                   /\ documents'[id].status = documents[id].status
                   /\ documents'[id].version = documents[id].version]_vars

\* the approver's decision on a document deleted while under approval was
\* answered 'Document not found'
C30_Witness ==
    /\ ret.op = "approve_document_endpoint" /\ ret.detail = "Document not found"
    /\ \E id \in DOMAIN documents :
           /\ ret.id = id
           /\ documents[id].deleted_at # NULL
           /\ documents[id].status = "under_approval"
====
